---- MODULE Spec2Model ----
(***************************************************************************)
(* A model of zeek-try-cluster's data pipeline:                            *)
(*   - the flow-hash packet sharder   (src/app/runner/split_pcap.py),      *)
(*   - the structured-log merger      (src/app/runner/merge_logs.py),      *)
(*   - the query compiler / evaluator (src/app/main.py).                   *)
(* Bytes are the naturals 0..255; byte strings and text are sequences of   *)
(* bytes / character codes, indexed from 1 (Python's index i is i+1 here). *)
(***************************************************************************)
EXTENDS Integers, Sequences, FiniteSets, TLC

(***************************************************************************)
(* Bounds of the model.                                                    *)
(***************************************************************************)
\* most packet records in one generated capture
MaxPkts == 3
\* most shards (the --workers argument ranges over 1..MaxWorkers)
MaxWorkers == 2
\* the 64-bit digest prefix is abstracted to a value in 0..MaxHash
MaxHash == 1

(***************************************************************************)
(* Program constants.                                                      *)
(***************************************************************************)
PCAP_GLOBAL_HDR_LEN == 24
PCAP_PKT_HDR_LEN == 16

(***************************************************************************)
(* Python sequence helpers.                                                *)
(***************************************************************************)
Min(a, b) == IF a < b THEN a ELSE b

\* s[a:b] for 0 <= a, 0 <= b (Python clamps both ends to len(s))
Slice(s, a, b) ==
  LET lo == Min(a, Len(s))
      hi == Min(b, Len(s))
  IN IF lo >= hi THEN << >> ELSE SubSeq(s, lo + 1, hi)

\* s[a:]
SliceFrom(s, a) == Slice(s, a, Len(s))

RECURSIVE FromBytesBig(_)
\* int.from_bytes(s, "big")
FromBytesBig(s) ==
  IF Len(s) = 0 THEN 0
  ELSE 256 * FromBytesBig(SubSeq(s, 1, Len(s) - 1)) + s[Len(s)]

RECURSIVE FromBytesLittle(_)
\* int.from_bytes(s, "little")
FromBytesLittle(s) ==
  IF Len(s) = 0 THEN 0
  ELSE s[1] + 256 * FromBytesLittle(Tail(s))

\* n.to_bytes(2, "big") for 0 <= n < 65536
ToBytes2(n) == << n \div 256, n % 256 >>

RECURSIVE DecStr(_)
\* str(n) for a natural n, as character codes
DecStr(n) == IF n < 10 THEN << 48 + n >> ELSE DecStr(n \div 10) \o << 48 + (n % 10) >>

HexDigit(d) == IF d < 10 THEN 48 + d ELSE 97 + (d - 10)

\* f"{n:04x}" for 0 <= n < 65536
Hex4(n) ==
  << HexDigit(n \div 4096), HexDigit((n \div 256) % 16),
     HexDigit((n \div 16) % 16), HexDigit(n % 16) >>

RECURSIVE JoinWith(_, _)
\* sep.join(parts)
JoinWith(sep, parts) ==
  IF Len(parts) = 0 THEN << >>
  ELSE IF Len(parts) = 1 THEN parts[1]
  ELSE parts[1] \o sep \o JoinWith(sep, Tail(parts))

RECURSIVE StrLess(_, _)
\* a < b on Python str (lexicographic on code points)
StrLess(a, b) ==
  IF Len(b) = 0 THEN FALSE
  ELSE IF Len(a) = 0 THEN TRUE
  ELSE IF a[1] # b[1] THEN a[1] < b[1]
  ELSE StrLess(Tail(a), Tail(b))

(***************************************************************************)
(* Flow key extraction (split_pcap.py).                                    *)
(***************************************************************************)
NoTuple == [ok |-> FALSE]

FiveTuple(src, dst, sp, dp, pr) ==
  [ok |-> TRUE, src_ip |-> src, dst_ip |-> dst, src_port |-> sp, dst_port |-> dp, proto |-> pr]

\* ".".join(str(b) for b in ip4)
fmt_ipv4(ip4) == JoinWith(<< 46 >>, [i \in 1..Len(ip4) |-> DecStr(ip4[i])])

\* ":".join of the eight 16-bit groups as 4 hex digits
fmt_ipv6(ip6) ==
  JoinWith(<< 58 >>, [g \in 1..8 |-> Hex4(FromBytesBig(Slice(ip6, 2 * (g - 1), 2 * g)))])

ipv4_tuple(pkt) ==
  IF Len(pkt) < 14 + 20 THEN NoTuple
  ELSE IF FromBytesBig(Slice(pkt, 12, 14)) # 2048 THEN NoTuple
  ELSE
    LET ip == SliceFrom(pkt, 14)
        ver_ihl == ip[1]
        ver == ver_ihl \div 16
        ihl == (ver_ihl % 16) * 4
    IN IF ver # 4 THEN NoTuple
       ELSE IF Len(ip) < ihl THEN NoTuple
       ELSE
         LET proto == ip[10]
             src_ip == Slice(ip, 12, 16)
             dst_ip == Slice(ip, 16, 20)
         IN IF proto \in {6, 17}
            THEN IF Len(ip) < ihl + 4 THEN NoTuple
                 ELSE LET l4 == SliceFrom(ip, ihl)
                      IN FiveTuple(src_ip, dst_ip, FromBytesBig(Slice(l4, 0, 2)),
                                   FromBytesBig(Slice(l4, 2, 4)), proto)
            ELSE FiveTuple(src_ip, dst_ip, 0, 0, proto)

ipv6_tuple(pkt) ==
  IF Len(pkt) < 14 + 40 THEN NoTuple
  ELSE IF FromBytesBig(Slice(pkt, 12, 14)) # 34525 THEN NoTuple
  ELSE
    LET ip == SliceFrom(pkt, 14)
        ver == ip[1] \div 16
    IN IF ver # 6 THEN NoTuple
       ELSE
         LET proto == ip[7]
             src_ip == Slice(ip, 8, 24)
             dst_ip == Slice(ip, 24, 40)
         IN IF proto \in {6, 17}
            THEN IF Len(ip) < 40 + 4 THEN NoTuple
                 ELSE LET l4 == SliceFrom(ip, 40)
                      IN FiveTuple(src_ip, dst_ip, FromBytesBig(Slice(l4, 0, 2)),
                                   FromBytesBig(Slice(l4, 2, 4)), proto)
            ELSE FiveTuple(src_ip, dst_ip, 0, 0, proto)

\* the key half of tuple_for_packet: tag byte + addresses + ports + protocol,
\* or "X" + the first 64 bytes
flow_key(pkt) ==
  LET t4 == ipv4_tuple(pkt)
      t6 == ipv6_tuple(pkt)
  IN IF t4.ok
     THEN << 52 >> \o t4.src_ip \o t4.dst_ip \o ToBytes2(t4.src_port)
            \o ToBytes2(t4.dst_port) \o << t4.proto >>
     ELSE IF t6.ok
     THEN << 54 >> \o t6.src_ip \o t6.dst_ip \o ToBytes2(t6.src_port)
            \o ToBytes2(t6.dst_port) \o << t6.proto >>
     ELSE << 88 >> \o Slice(pkt, 0, 64)

\* the display half of tuple_for_packet
display_tuple(pkt) ==
  LET t4 == ipv4_tuple(pkt)
      t6 == ipv6_tuple(pkt)
  IN IF t4.ok
     THEN [ip_ver |-> 4, src_ip |-> fmt_ipv4(t4.src_ip), dst_ip |-> fmt_ipv4(t4.dst_ip),
           src_port |-> t4.src_port, dst_port |-> t4.dst_port, proto |-> t4.proto]
     ELSE IF t6.ok
     THEN [ip_ver |-> 6, src_ip |-> fmt_ipv6(t6.src_ip), dst_ip |-> fmt_ipv6(t6.dst_ip),
           src_port |-> t6.src_port, dst_port |-> t6.dst_port, proto |-> t6.proto]
     ELSE [ip_ver |-> 0, src_ip |-> << 45 >>, dst_ip |-> << 45 >>,
           src_port |-> 0, dst_port |-> 0, proto |-> 0]

\* returns the flow key (bytes) and the display tuple
tuple_for_packet(pkt) == [key |-> flow_key(pkt), rep |-> display_tuple(pkt)]

(***************************************************************************)
(* Captures the sharder is run on: the global header, up to MaxPkts packet *)
(* records, and the file cut short by 0 or 5 bytes (a payload or a         *)
(* record header truncated, or a file shorter than the global header).     *)
(***************************************************************************)
GlobalHdr ==
  << 212, 195, 178, 161, 2, 0, 4, 0, 0, 0, 0, 0, 0, 0, 0, 0, 255, 255, 0, 0, 1, 0, 0, 0 >>

EthHdr(etype) == << 2, 0, 0, 0, 0, 1, 2, 0, 0, 0, 0, 2 >> \o ToBytes2(etype)

Ip4Hdr(proto, src, dst) ==
  << 69, 0, 0, 40, 0, 0, 0, 0, 64, proto, 0, 0 >> \o src \o dst

Ip6Hdr(nxt, src, dst) == << 96, 0, 0, 0, 0, 4, nxt, 64 >> \o src \o dst

HostA == << 10, 0, 0, 1 >>
HostB == << 10, 0, 0, 2 >>
Host6A == << 32, 1, 13, 184, 0, 0, 0, 0, 0, 0, 0, 0, 0, 0, 0, 1 >>
Host6B == << 32, 1, 13, 184, 0, 0, 0, 0, 0, 0, 0, 0, 0, 0, 0, 2 >>

\* the packet payloads captures are built from
Payloads ==
  << EthHdr(2048) \o Ip4Hdr(6, HostA, HostB) \o << 0, 1, 0, 80 >>,
     EthHdr(2048) \o Ip4Hdr(6, HostA, HostB) \o << 0, 2, 0, 80 >>,
     EthHdr(34525) \o Ip6Hdr(17, Host6A, Host6B) \o << 0, 53, 0, 53 >>,
     << 1, 2 >> >>

\* n as 4 little-endian bytes, n < 65536
Le32(n) == << n % 256, n \div 256, 0, 0 >>

\* the i-th record: ts_sec = i, incl_len = orig_len = len(payload)
PktRecord(i, payload) ==
  << i, 0, 0, 0, 0, 0, 0, 0 >> \o Le32(Len(payload)) \o Le32(Len(payload)) \o payload

RECURSIVE Concat(_)
Concat(ss) == IF Len(ss) = 0 THEN << >> ELSE ss[1] \o Concat(Tail(ss))

CaptureOf(ids, cut) ==
  LET full == GlobalHdr \o Concat([i \in 1..Len(ids) |-> PktRecord(i, Payloads[ids[i]])])
  IN Slice(full, 0, IF Len(full) < cut THEN 0 ELSE Len(full) - cut)

Cuts == {0, 5}

CaptureFiles ==
  UNION { { CaptureOf(ids, cut) : ids \in [1..n -> 1..Len(Payloads)], cut \in Cuts }
          : n \in 0..MaxPkts }

(***************************************************************************)
(* State.                                                                  *)
(***************************************************************************)
VARIABLES
  pc,        \* where split_pcap_flowhash is
  workers,   \* the number of shards N
  data,      \* the bytes of the input capture
  outs,      \* the shard output handles in order: [open, bytes written]
  flow_map,  \* the Flow Records in insertion order (a Python dict)
  off,       \* the read offset of the loop
  exc,       \* the exception in flight: "none", "format" (ValueError) or "io"
  hashOf,    \* the digest values drawn so far: flow key -> 0..MaxHash
  map_rows   \* the data lines written to worker_map.log

shardVars == << pc, workers, data, outs, flow_map, off, exc, hashOf, map_rows >>

VARIABLES
  m_pc,          \* where merge_worker_logs is, for one log name
  worker_logs,   \* worker number -> the parsed log file of that worker, or NoLog
  paths,         \* per_log[log_name]: the workers that hold the log, in name order
  first_fields,  \* the first worker's field list
  ts_i,          \* _ts_index(first_fields): a 0-based column, or -1 for None
  all_rows,      \* the rows collected so far
  path_i,        \* how many of paths have been read
  merged         \* the data rows written to the merged log

mergeVars == << m_pc, worker_logs, paths, first_fields, ts_i, all_rows, path_i, merged >>

VARIABLES
  q_pc,    \* where get_log / _compile_query is
  q,       \* the query text
  row,     \* the decoded row the predicate is applied to: << field, value >> pairs
  toks,    \* _tokenize(q)
  rpn,     \* _to_rpn(toks)
  rpn_i,   \* how many postfix tokens the compile loop has consumed
  preds,   \* the operand stack of the compile loop
  subst,   \* an always-true predicate was pushed for an operator short of operands
  pred,    \* what _compile_query returns: a predicate, or NoPred for None
  result   \* pred is None or pred(row)

queryVars == << q_pc, q, row, toks, rpn, rpn_i, preds, subst, pred, result >>

vars == << shardVars, mergeVars, queryVars >>

\* the sharder is not running
ShardIdle ==
  /\ pc = "idle"
  /\ workers = 1
  /\ data = << >>
  /\ outs = << >>
  /\ flow_map = << >>
  /\ off = 0
  /\ exc = "none"
  /\ hashOf = << >>
  /\ map_rows = << >>

\* no query is being served
QueryIdle ==
  /\ q_pc = "idle"
  /\ q = << >>
  /\ row = << >>
  /\ toks = << >>
  /\ rpn = << >>
  /\ rpn_i = 0
  /\ preds = << >>
  /\ subst = FALSE
  /\ pred = << >>
  /\ result = FALSE

\* the merger is not running
MergeIdle ==
  /\ m_pc = "idle"
  /\ worker_logs = << >>
  /\ paths = << >>
  /\ first_fields = << >>
  /\ ts_i = -1
  /\ all_rows = << >>
  /\ path_i = 0
  /\ merged = << >>

(***************************************************************************)
(* split_pcap_flowhash, step by step.                                      *)
(***************************************************************************)
\* idx = _hash_key(key) % workers
WorkerIdxByArrival(h) == (h + Len(flow_map)) % workers

WorkerIdx(h) == h % workers

\* the loop condition and the truncated-record break
pkt_end(o) == o + PCAP_PKT_HDR_LEN + FromBytesLittle(Slice(data, o + 8, o + 12))

RecordFitsStrict(o) ==
  /\ o + PCAP_PKT_HDR_LEN <= Len(data)
  /\ pkt_end(o) < Len(data)

RecordFits(o) ==
  /\ o + PCAP_PKT_HDR_LEN <= Len(data)
  /\ ~ (pkt_end(o) > Len(data))

KeyIndex(fm, key) == { i \in 1..Len(fm) : fm[i].key = key }

\* if key not in flow_map: create the record, else: pkt_count += 1
Account(fm, key, rep, worker_id) ==
  IF KeyIndex(fm, key) = {}
  THEN Append(fm, [key |-> key, worker |-> worker_id, ip_ver |-> rep.ip_ver,
                   src_ip |-> rep.src_ip, dst_ip |-> rep.dst_ip,
                   src_port |-> rep.src_port, dst_port |-> rep.dst_port,
                   proto |-> rep.proto, pkt_count |-> 1])
  ELSE [i \in 1..Len(fm) |->
          IF fm[i].key = key THEN [fm[i] EXCEPT !.pkt_count = @ + 1] ELSE fm[i]]

\* r1 sorts strictly before r2 under the key
\* (worker, -pkt_count, ip_ver, src_ip, dst_ip, proto)
RowLess(r1, r2) ==
  IF r1.worker # r2.worker THEN r1.worker < r2.worker
  ELSE IF r1.pkt_count # r2.pkt_count THEN (0 - r1.pkt_count) < (0 - r2.pkt_count)
  ELSE IF r1.ip_ver # r2.ip_ver THEN r1.ip_ver < r2.ip_ver
  ELSE IF r1.src_ip # r2.src_ip THEN StrLess(r1.src_ip, r2.src_ip)
  ELSE IF r1.dst_ip # r2.dst_ip THEN StrLess(r1.dst_ip, r2.dst_ip)
  ELSE r1.proto < r2.proto

\* x goes after every element that is not greater than it (a stable sort)
InsertRow(sorted, x) ==
  LET before == { i \in 1..Len(sorted) : \A j \in 1..i : ~ RowLess(x, sorted[j]) }
      n == Cardinality(before)
  IN SubSeq(sorted, 1, n) \o << x >> \o SubSeq(sorted, n + 1, Len(sorted))

RECURSIVE SortRows(_)
\* rows.sort(key=...)
SortRows(rows) ==
  IF Len(rows) = 0 THEN << >>
  ELSE InsertRow(SortRows(SubSeq(rows, 1, Len(rows) - 1)), rows[Len(rows)])

\* one data line of write_worker_map_log
MapLine(r) ==
  JoinWith(<< 9 >>, << DecStr(r.worker), DecStr(r.ip_ver), r.src_ip, DecStr(r.src_port),
                       r.dst_ip, DecStr(r.dst_port), DecStr(r.proto), DecStr(r.pkt_count) >>)

MapLines(fm) == LET rows == SortRows(fm) IN [i \in 1..Len(rows) |-> MapLine(rows[i])]

InitShard ==
  /\ pc = "open"
  /\ workers \in 1..MaxWorkers
  /\ data \in CaptureFiles
  /\ outs = << >>
  /\ flow_map = << >>
  /\ off = 0
  /\ exc = "none"
  /\ hashOf = << >>
  /\ map_rows = << >>
  /\ MergeIdle
  /\ QueryIdle

\* p.open("wb") for the next shard
OpenShard ==
  /\ pc = "open"
  /\ Len(outs) < workers
  /\ outs' = Append(outs, [open |-> TRUE, bytes |-> << >>])
  /\ pc' = IF Len(outs) + 1 = workers THEN "read" ELSE "open"
  /\ UNCHANGED << workers, data, flow_map, off, exc, hashOf, map_rows >>
  /\ UNCHANGED << mergeVars, queryVars >>

\* p.open("wb") raises: the loop is outside the try block
OpenShardFails ==
  /\ pc = "open"
  /\ Len(outs) < workers
  /\ exc' = "io"
  /\ pc' = "raised"
  /\ UNCHANGED << workers, data, outs, flow_map, off, hashOf, map_rows >>
  /\ UNCHANGED << mergeVars, queryVars >>

\* data = pcap_path.read_bytes(); the size check
ReadInput ==
  /\ pc = "read"
  /\ IF Len(data) < PCAP_GLOBAL_HDR_LEN
     THEN exc' = "format" /\ pc' = "finally"
     ELSE exc' = exc /\ pc' = "header"
  /\ UNCHANGED << workers, data, outs, flow_map, off, hashOf, map_rows >>
  /\ UNCHANGED << mergeVars, queryVars >>

ReadInputFails ==
  /\ pc = "read"
  /\ exc' = "io"
  /\ pc' = "finally"
  /\ UNCHANGED << workers, data, outs, flow_map, off, hashOf, map_rows >>
  /\ UNCHANGED << mergeVars, queryVars >>

\* for _, f in outs: f.write(global_hdr); off = PCAP_GLOBAL_HDR_LEN
WriteGlobalHeader ==
  /\ pc = "header"
  /\ outs' = [i \in 1..Len(outs) |->
                [outs[i] EXCEPT !.bytes = @ \o Slice(data, 0, PCAP_GLOBAL_HDR_LEN)]]
  /\ off' = PCAP_GLOBAL_HDR_LEN
  /\ pc' = "loop"
  /\ UNCHANGED << workers, data, flow_map, exc, hashOf, map_rows >>
  /\ UNCHANGED << mergeVars, queryVars >>

\* the write to shard j raises after the shards before it were written
WriteGlobalHeaderFails ==
  /\ pc = "header"
  /\ \E j \in 1..Len(outs) :
       outs' = [i \in 1..Len(outs) |->
                  IF i < j
                  THEN [outs[i] EXCEPT !.bytes = @ \o Slice(data, 0, PCAP_GLOBAL_HDR_LEN)]
                  ELSE outs[i]]
  /\ exc' = "io"
  /\ pc' = "finally"
  /\ UNCHANGED << workers, data, flow_map, off, hashOf, map_rows >>
  /\ UNCHANGED << mergeVars, queryVars >>

\* one iteration of the loop with the digest of the key being h
RoutePacket(h) ==
  LET pkt_hdr == Slice(data, off, off + PCAP_PKT_HDR_LEN)
      pkt == Slice(data, off + PCAP_PKT_HDR_LEN, pkt_end(off))
      kr == tuple_for_packet(pkt)
      idx == WorkerIdx(h)
  IN /\ outs' = [outs EXCEPT ![idx + 1].bytes = @ \o pkt_hdr \o pkt]
     /\ flow_map' = Account(flow_map, kr.key, kr.rep, idx + 1)
     /\ hashOf' = [k \in DOMAIN hashOf \cup {kr.key} |-> IF k = kr.key THEN h ELSE hashOf[k]]
     /\ off' = pkt_end(off)

\* _hash_key: a function of the key bytes, its value drawn when the key is first hashed
HashChoices(key) == IF key \in DOMAIN hashOf THEN {hashOf[key]} ELSE 0..MaxHash

ProcessPacket ==
  /\ pc = "loop"
  /\ RecordFits(off)
  /\ \E h \in HashChoices(flow_key(Slice(data, off + PCAP_PKT_HDR_LEN, pkt_end(off)))) :
       RoutePacket(h)
  /\ UNCHANGED << pc, workers, data, exc, map_rows >>
  /\ UNCHANGED << mergeVars, queryVars >>

\* f.write(pkt_hdr) or f.write(pkt) raises
WriteRecordFails ==
  /\ pc = "loop"
  /\ RecordFits(off)
  /\ \E h \in HashChoices(flow_key(Slice(data, off + PCAP_PKT_HDR_LEN, pkt_end(off)))) :
     \E hdr_written \in BOOLEAN :
       outs' = [outs EXCEPT ![WorkerIdx(h) + 1].bytes =
                  IF hdr_written THEN @ \o Slice(data, off, off + PCAP_PKT_HDR_LEN) ELSE @]
  /\ exc' = "io"
  /\ pc' = "finally"
  /\ UNCHANGED << workers, data, flow_map, off, hashOf, map_rows >>
  /\ UNCHANGED << mergeVars, queryVars >>

\* the loop ends: no room for a record header, or the declared payload is cut short
LoopExit ==
  /\ pc = "loop"
  /\ ~ RecordFits(off)
  /\ pc' = "finally"
  /\ UNCHANGED << workers, data, outs, flow_map, off, exc, hashOf, map_rows >>
  /\ UNCHANGED << mergeVars, queryVars >>

\* finally: for _, f in outs: f.close()
Finally ==
  /\ pc = "finally"
  /\ outs' = [i \in 1..Len(outs) |-> [outs[i] EXCEPT !.open = FALSE]]
  /\ pc' = IF exc = "none" THEN "sort" ELSE "raised"
  /\ UNCHANGED << workers, data, flow_map, off, exc, hashOf, map_rows >>
  /\ UNCHANGED << mergeVars, queryVars >>

\* rows.sort(...); write_worker_map_log(map_path, rows); return map_path
WriteWorkerMap ==
  /\ pc = "sort"
  /\ map_rows' = MapLines(flow_map)
  /\ pc' = "returned"
  /\ UNCHANGED << workers, data, outs, flow_map, off, exc, hashOf >>
  /\ UNCHANGED << mergeVars, queryVars >>

Next ==
  \/ OpenShard
  \/ OpenShardFails
  \/ ReadInput
  \/ ReadInputFails
  \/ WriteGlobalHeader
  \/ WriteGlobalHeaderFails
  \/ ProcessPacket
  \/ WriteRecordFails
  \/ LoopExit
  \/ Finally
  \/ WriteWorkerMap

Spec == InitShard /\ [][Next]_vars

(***************************************************************************)
(* merge_worker_logs (merge_logs.py), for the files of one log name.       *)
(* Text is a sequence of one-character strings.  A parsed log file is      *)
(* what _read_zeek_log returns: header lines, field names and rows, a row  *)
(* being the cells of one line split at tabs.                              *)
(***************************************************************************)
\* most worker directories, and most rows in one worker's log
MaxMergeWorkers == 2
MaxRows == 2

DigitChars == << "0", "1", "2", "3", "4", "5", "6", "7", "8", "9" >>

IsDigit(c) == \E d \in 1..10 : DigitChars[d] = c

DigitVal(c) == (CHOOSE d \in 1..10 : DigitChars[d] = c) - 1

RECURSIVE DigitsVal(_)
DigitsVal(t) ==
  IF Len(t) = 0 THEN 0 ELSE 10 * DigitsVal(SubSeq(t, 1, Len(t) - 1)) + DigitVal(t[Len(t)])

\* float(text), on the texts that occur here: decimal digits parse to their value,
\* "nan" parses to a NaN, anything else raises ValueError
ParseFloat(t) ==
  IF Len(t) > 0 /\ \A i \in 1..Len(t) : IsDigit(t[i])
  THEN [ok |-> TRUE, nan |-> FALSE, v |-> DigitsVal(t)]
  ELSE IF t = << "n", "a", "n" >>
  THEN [ok |-> TRUE, nan |-> TRUE, v |-> 0]
  ELSE [ok |-> FALSE, nan |-> FALSE, v |-> 0]

\* x < y on Python floats: false whenever either side is a NaN
FloatLess(x, y) == ~ x.nan /\ ~ y.nan /\ x.v < y.v

\* _ts_val: 0.0 when the column is missing or float() raises
ts_val(r, i) ==
  IF i >= Len(r) THEN [ok |-> TRUE, nan |-> FALSE, v |-> 0]
  ELSE IF ParseFloat(r[i + 1]).ok THEN ParseFloat(r[i + 1])
  ELSE [ok |-> TRUE, nan |-> FALSE, v |-> 0]

\* _ts_index: fields.index("ts"), or -1 for None
ts_index(fields) ==
  IF \E i \in 1..Len(fields) : fields[i] = "ts"
  THEN (CHOOSE i \in 1..Len(fields) : fields[i] = "ts" /\ \A j \in 1..(i - 1) : fields[j] # "ts") - 1
  ELSE -1

RECURSIVE RunEnd(_, _, _, _)
\* count_run of list.sort: the length of the run that starts the list, n >= 2 so far
RunEnd(rows, i, n, desc) ==
  IF n = Len(rows) THEN n
  ELSE IF desc
  THEN (IF FloatLess(ts_val(rows[n + 1], i), ts_val(rows[n], i))
        THEN RunEnd(rows, i, n + 1, desc) ELSE n)
  ELSE (IF FloatLess(ts_val(rows[n + 1], i), ts_val(rows[n], i))
        THEN n ELSE RunEnd(rows, i, n + 1, desc))

Reverse(t) == [j \in 1..Len(t) |-> t[Len(t) + 1 - j]]

RECURSIVE BinPos(_, _, _, _, _)
\* binarysort's search: where pivot goes in the sorted prefix (0-based, l < r at entry)
BinPos(sorted, i, pivot, l, r) ==
  IF l >= r THEN l
  ELSE LET mid == l + ((r - l) \div 2)
       IN IF FloatLess(ts_val(pivot, i), ts_val(sorted[mid + 1], i))
          THEN BinPos(sorted, i, pivot, l, mid)
          ELSE BinPos(sorted, i, pivot, mid + 1, r)

RECURSIVE BinarySort(_, _, _)
\* binarysort: rows[1..start] is sorted, insert the rest one by one
BinarySort(rows, i, start) ==
  IF start >= Len(rows) THEN rows
  ELSE LET pivot == rows[start + 1]
           l == BinPos(rows, i, pivot, 0, start)
       IN BinarySort(SubSeq(rows, 1, l) \o << pivot >> \o SubSeq(rows, l + 1, start)
                       \o SubSeq(rows, start + 2, Len(rows)), i, start + 1)

\* all_rows.sort(key=_ts_val): CPython's list.sort on a list shorter than 64
\* (one run found by count_run, reversed if strictly descending, then binarysort);
\* the only comparison used is <
SortByTs(rows, i) ==
  IF Len(rows) < 2 THEN rows
  ELSE LET desc == FloatLess(ts_val(rows[2], i), ts_val(rows[1], i))
           n == RunEnd(rows, i, 2, desc)
           run == SubSeq(rows, 1, n)
       IN BinarySort((IF desc THEN Reverse(run) ELSE run) \o SubSeq(rows, n + 1, Len(rows)),
                     i, n)

\* the logs the merger is run on
NoLog == [present |-> FALSE, header |-> 0, fields |-> << >>, rows |-> << >>]

TsCells == { << "1" >>, << "2" >>, << "n", "a", "n" >>, << "-" >> }

Layouts == { << "ts", "uid" >>, << "uid", "ts" >>, << "uid" >> }

\* a uid cell that names the worker and the row
UidCell(w, j) == << "w", DigitChars[w + 1], "r", DigitChars[j + 1] >>

RowOf(layout, w, j, ts) ==
  [c \in 1..Len(layout) |-> IF layout[c] = "ts" THEN ts ELSE UidCell(w, j)]

LogOf(layout, w, n, tss) ==
  [present |-> TRUE, header |-> w, fields |-> layout,
   rows |-> [j \in 1..n |-> RowOf(layout, w, j, tss[j])]]

InitMerge ==
  /\ m_pc = "start"
  /\ \E has \in [1..MaxMergeWorkers -> BOOLEAN] :
     \E lay \in [1..MaxMergeWorkers -> Layouts] :
     \E n \in [1..MaxMergeWorkers -> 0..MaxRows] :
     \E tss \in [1..MaxMergeWorkers -> [1..MaxRows -> TsCells]] :
       worker_logs = [w \in 1..MaxMergeWorkers |->
                        IF has[w] THEN LogOf(lay[w], w, n[w], tss[w]) ELSE NoLog]
  /\ paths = << >>
  /\ first_fields = << >>
  /\ ts_i = -1
  /\ all_rows = << >>
  /\ path_i = 0
  /\ merged = << >>
  /\ ShardIdle
  /\ QueryIdle

RECURSIVE Holders(_)
\* the workers 1..w that hold the log, ascending (sorted() on worker1, worker2, ...)
Holders(w) ==
  IF w = 0 THEN << >>
  ELSE Holders(w - 1) \o (IF worker_logs[w].present THEN << w >> ELSE << >>)

\* the discovery loop: per_log.setdefault(lp.name, []).append(lp)
Discover ==
  /\ m_pc = "start"
  /\ paths' = Holders(Len(worker_logs))
  /\ m_pc' = IF paths' = << >> THEN "done" ELSE "first"
  /\ UNCHANGED << worker_logs, first_fields, ts_i, all_rows, path_i, merged >>
  /\ UNCHANGED << shardVars, queryVars >>

\* first_header, first_fields, _ = _read_zeek_log(paths[0]); ts_i = _ts_index(first_fields)
ReadFirst ==
  /\ m_pc = "first"
  /\ first_fields' = worker_logs[paths[1]].fields
  /\ ts_i' = ts_index(first_fields')
  /\ m_pc' = "collect"
  /\ UNCHANGED << worker_logs, paths, all_rows, path_i, merged >>
  /\ UNCHANGED << shardVars, queryVars >>

\* for p in paths: all_rows.extend(rows)
ExtendRows ==
  /\ m_pc = "collect"
  /\ path_i < Len(paths)
  /\ all_rows' = all_rows \o worker_logs[paths[path_i + 1]].rows
  /\ path_i' = path_i + 1
  /\ UNCHANGED << m_pc, worker_logs, paths, first_fields, ts_i, merged >>
  /\ UNCHANGED << shardVars, queryVars >>

\* if ts_i is not None: all_rows.sort(key=_ts_val)
SortCollected ==
  /\ m_pc = "collect"
  /\ path_i = Len(paths)
  /\ all_rows' = IF ts_i # -1 THEN SortByTs(all_rows, ts_i) ELSE all_rows
  /\ m_pc' = "write"
  /\ UNCHANGED << worker_logs, paths, first_fields, ts_i, path_i, merged >>
  /\ UNCHANGED << shardVars, queryVars >>

\* the merged file: the first header, then one line per row
WriteMerged ==
  /\ m_pc = "write"
  /\ merged' = all_rows
  /\ m_pc' = "done"
  /\ UNCHANGED << worker_logs, paths, first_fields, ts_i, all_rows, path_i >>
  /\ UNCHANGED << shardVars, queryVars >>

NextMerge ==
  \/ Discover
  \/ ReadFirst
  \/ ExtendRows
  \/ SortCollected
  \/ WriteMerged

SpecMerge == InitMerge /\ [][NextMerge]_vars

(***************************************************************************)
(* The query engine (main.py).  Text is a sequence of one-character        *)
(* strings; a row is a Python dict given as its << field, value >> items.  *)
(***************************************************************************)
Lowers ==
  << "a", "b", "c", "d", "e", "f", "g", "h", "i", "j", "k", "l", "m",
     "n", "o", "p", "q", "r", "s", "t", "u", "v", "w", "x", "y", "z" >>

Uppers ==
  << "A", "B", "C", "D", "E", "F", "G", "H", "I", "J", "K", "L", "M",
     "N", "O", "P", "Q", "R", "S", "T", "U", "V", "W", "X", "Y", "Z" >>

\* one character of str.upper()
Upper(c) ==
  IF \E k \in 1..26 : Lowers[k] = c THEN Uppers[CHOOSE k \in 1..26 : Lowers[k] = c] ELSE c

\* t.upper()
UpperStr(t) == [k \in 1..Len(t) |-> Upper(t[k])]

\* \s of the regular expressions
IsSpace(c) == c \in {" ", "\t", "\n", "\r"}

RECURSIVE LStrip(_)
LStrip(t) == IF Len(t) > 0 /\ IsSpace(t[1]) THEN LStrip(Tail(t)) ELSE t

RECURSIVE RStrip(_)
RStrip(t) ==
  IF Len(t) > 0 /\ IsSpace(t[Len(t)]) THEN RStrip(SubSeq(t, 1, Len(t) - 1)) ELSE t

\* t.strip()
Strip(t) == RStrip(LStrip(t))

AND_ == << "A", "N", "D" >>
OR_ == << "O", "R" >>
NOT_ == << "N", "O", "T" >>
LPAREN == << "(" >>
RPAREN == << ")" >>

\* s has the word w at 1-based position i, ignoring case
HasWordAt(s, i, w) ==
  /\ i + Len(w) - 1 <= Len(s)
  /\ \A k \in 1..Len(w) : Upper(s[i + k - 1]) = w[k]

\* the alternatives of _TOKEN_RE at position i, each giving the length it matches
\* there or 0; the regular expression takes the first alternative that matches
MatchParen(s, i) == IF s[i] \in {"(", ")"} THEN 1 ELSE 0

\* (?i:AND|OR|NOT): no word boundary is asked for after the keyword
MatchKeyword(s, i) ==
  IF HasWordAt(s, i, AND_) THEN 3
  ELSE IF HasWordAt(s, i, OR_) THEN 2
  ELSE IF HasWordAt(s, i, NOT_) THEN 3
  ELSE 0

RECURSIVE MatchAtom(_, _)
\* [^\s()]+ : the longest run of characters that are neither space nor parenthesis
MatchAtom(s, i) ==
  IF i > Len(s) \/ IsSpace(s[i]) \/ s[i] \in {"(", ")"} THEN 0
  ELSE 1 + MatchAtom(s, i + 1)

RECURSIVE QuoteClose(_, _)
\* the position of the quote that closes a quoted string whose body starts at i, or 0
QuoteClose(s, i) ==
  IF i > Len(s) THEN 0
  ELSE IF s[i] = "\\" /\ i + 1 <= Len(s) /\ s[i + 1] # "\n" /\ QuoteClose(s, i + 2) # 0
  THEN QuoteClose(s, i + 2)
  ELSE IF s[i] = "\"" THEN i
  ELSE QuoteClose(s, i + 1)

\* "(?:\\.|[^"])*" : tried last, after the atom alternative
MatchQuoted(s, i) ==
  IF s[i] = "\"" /\ QuoteClose(s, i + 1) # 0 THEN QuoteClose(s, i + 1) - i + 1 ELSE 0

TokenLen(s, i) ==
  IF MatchParen(s, i) > 0 THEN MatchParen(s, i)
  ELSE IF MatchKeyword(s, i) > 0 THEN MatchKeyword(s, i)
  ELSE IF MatchAtom(s, i) > 0 THEN MatchAtom(s, i)
  ELSE MatchQuoted(s, i)

RECURSIVE TokensFrom(_, _)
\* finditer from position i: skip \s*, take a token, go on after it
TokensFrom(s, i) ==
  IF i > Len(s) THEN << >>
  ELSE IF IsSpace(s[i]) THEN TokensFrom(s, i + 1)
  ELSE LET n == TokenLen(s, i)
       IN IF n = 0 THEN TokensFrom(s, i + 1)
          ELSE << SubSeq(s, i, i + n - 1) >> \o TokensFrom(s, i + n)

\* _tokenize
tokenize(s) == TokensFrom(s, 1)

RECURSIVE ReplaceAll(_, _, _)
\* t.replace(old, new) for a two-character old
ReplaceAll(t, old, new) ==
  IF Len(t) < 2 THEN t
  ELSE IF SubSeq(t, 1, 2) = old THEN new \o ReplaceAll(SubSeq(t, 3, Len(t)), old, new)
  ELSE << t[1] >> \o ReplaceAll(Tail(t), old, new)

\* _strip_quotes
strip_quotes(t) ==
  IF Len(t) >= 2 /\ t[1] = "\"" /\ t[Len(t)] = "\""
  THEN ReplaceAll(ReplaceAll(SubSeq(t, 2, Len(t) - 1), << "\\", "\"" >>, << "\"" >>),
                  << "\\", "\\" >>, << "\\" >>)
  ELSE t

RECURSIVE match_value(_, _)
\* _match_value: the anchored, case-insensitive regular expression built by
\* _wildcard_to_regex (* is .*, ? is ., any other character is itself)
match_value(val, pat) ==
  IF Len(pat) = 0 THEN Len(val) = 0
  ELSE IF pat[1] = "*"
  THEN match_value(val, Tail(pat)) \/ (Len(val) > 0 /\ val[1] # "\n" /\ match_value(Tail(val), pat))
  ELSE /\ Len(val) > 0
       /\ IF pat[1] = "?" THEN val[1] # "\n" ELSE Upper(val[1]) = Upper(pat[1])
       /\ match_value(Tail(val), Tail(pat))

\* predicates (the closures of the source) as trees
TruePred == [op |-> "true", field |-> << >>, pat |-> << >>, kids |-> << >>]
NoPred == [op |-> "none", field |-> << >>, pat |-> << >>, kids |-> << >>]
FieldPred(f, p) == [op |-> "field", field |-> f, pat |-> p, kids |-> << >>]
AnyPred(p) == [op |-> "any", field |-> << >>, pat |-> p, kids |-> << >>]
NotPred(a) == [op |-> "not", field |-> << >>, pat |-> << >>, kids |-> << a >>]
AndPred(a, b) == [op |-> "and", field |-> << >>, pat |-> << >>, kids |-> << a, b >>]
OrPred(a, b) == [op |-> "or", field |-> << >>, pat |-> << >>, kids |-> << a, b >>]

\* the first position of : or = in t, or 0
SepPos(t) ==
  IF \E k \in 1..Len(t) : t[k] \in {":", "="}
  THEN CHOOSE k \in 1..Len(t) : t[k] \in {":", "="} /\ \A j \in 1..(k - 1) : t[j] \notin {":", "="}
  ELSE 0

\* _term_predicate: ^([^:=]+)\s*[:=]\s*(.+)$ needs a character before the separator
\* and one after it; otherwise the term is matched against every field
term_predicate(term0) ==
  LET term == strip_quotes(term0)
      k == SepPos(term)
  IN IF k > 1 /\ k < Len(term) /\ \A j \in (k + 1)..Len(term) : term[j] # "\n"
     THEN FieldPred(Strip(SubSeq(term, 1, k - 1)),
                    strip_quotes(Strip(SubSeq(term, k + 1, Len(term)))))
     ELSE AnyPred(term)

\* row.get(field, "")
RowGet(r, field) ==
  IF \E k \in 1..Len(r) : r[k][1] = field
  THEN r[CHOOSE k \in 1..Len(r) : r[k][1] = field][2]
  ELSE << >>

RECURSIVE EvalPred(_, _)
\* calling a predicate on a row
EvalPred(p, r) ==
  CASE p.op = "true" -> TRUE
    [] p.op = "field" -> match_value(RowGet(r, p.field), p.pat)
    [] p.op = "any" -> \E k \in 1..Len(r) : match_value(r[k][2], p.pat)
    [] p.op = "not" -> ~ EvalPred(p.kids[1], r)
    [] p.op = "and" -> EvalPred(p.kids[1], r) /\ EvalPred(p.kids[2], r)
    [] p.op = "or" -> EvalPred(p.kids[1], r) \/ EvalPred(p.kids[2], r)

Operators == {AND_, OR_, NOT_}

prec(t) == IF t = NOT_ THEN 3 ELSE IF t = AND_ THEN 2 ELSE 1

\* norm: the upper-cased token when that is AND, OR or NOT
norm(t) == IF UpperStr(t) \in Operators THEN UpperStr(t) ELSE t

Top(stack) == stack[Len(stack)]

Pop(stack) == SubSeq(stack, 1, Len(stack) - 1)

RECURSIVE PopToParen(_)
\* while opstack and opstack[-1] != "(": out.append(opstack.pop())
PopToParen(st) ==
  IF Len(st.opstack) > 0 /\ Top(st.opstack) # LPAREN
  THEN PopToParen([out |-> Append(st.out, Top(st.opstack)), opstack |-> Pop(st.opstack)])
  ELSE st

RECURSIVE PopNotLower(_, _)
\* while opstack and opstack[-1] in prec and prec[opstack[-1]] >= prec[t]: pop to out
PopNotLower(st, t) ==
  IF Len(st.opstack) > 0 /\ Top(st.opstack) \in Operators /\ prec(Top(st.opstack)) >= prec(t)
  THEN PopNotLower([out |-> Append(st.out, Top(st.opstack)), opstack |-> Pop(st.opstack)], t)
  ELSE st

\* the body of _to_rpn's loop for one token
RpnStep(st, raw) ==
  LET t == norm(raw)
  IN IF t = LPAREN THEN [st EXCEPT !.opstack = Append(@, t)]
     ELSE IF t = RPAREN
     THEN LET u == PopToParen(st)
          IN IF Len(u.opstack) > 0 /\ Top(u.opstack) = LPAREN
             THEN [u EXCEPT !.opstack = Pop(@)] ELSE u
     ELSE IF t \in Operators
     THEN [PopNotLower(st, t) EXCEPT !.opstack = Append(@, t)]
     ELSE [st EXCEPT !.out = Append(@, raw)]

RECURSIVE RpnLoop(_, _)
RpnLoop(st, tokens) ==
  IF Len(tokens) = 0 THEN st ELSE RpnLoop(RpnStep(st, tokens[1]), Tail(tokens))

\* _to_rpn: the loop, then every operator left on the stack, top first
to_rpn(tokens) ==
  LET st == RpnLoop([out |-> << >>, opstack |-> << >>], tokens)
  IN st.out \o Reverse(st.opstack)

\* the body of _compile_query's loop for one postfix token
CompileStep(st, tok) ==
  LET u == UpperStr(tok)
      n == Len(st.preds)
  IN IF u = NOT_
     THEN IF n = 0
          THEN [preds |-> Append(st.preds, TruePred), subst |-> TRUE]
          ELSE [st EXCEPT !.preds = Append(Pop(@), NotPred(Top(@)))]
     ELSE IF u \in {AND_, OR_}
     THEN IF n < 2
          THEN [preds |-> Append(st.preds, TruePred), subst |-> TRUE]
          ELSE LET b == st.preds[n]
                   a == st.preds[n - 1]
               IN [st EXCEPT !.preds = Append(SubSeq(@, 1, n - 2),
                                              IF u = AND_ THEN AndPred(a, b) ELSE OrPred(a, b))]
     ELSE [st EXCEPT !.preds = Append(@, term_predicate(tok))]

RECURSIVE CompileLoop(_, _)
CompileLoop(st, postfix) ==
  IF Len(postfix) = 0 THEN st ELSE CompileLoop(CompileStep(st, postfix[1]), Tail(postfix))

\* _compile_query as a function of the query text: None is NoPred
compile_query(text) ==
  LET tokens == tokenize(Strip(text))
      st == CompileLoop([preds |-> << >>, subst |-> FALSE], to_rpn(tokens))
  IN IF Len(tokens) = 0 \/ Len(st.preds) = 0 THEN NoPred ELSE Top(st.preds)

\* get_log's filter as a function of the query text and the row
Keeps(text, r) ==
  LET p == compile_query(text)
  IN p = NoPred \/ EvalPred(p, r)

(***************************************************************************)
(* Queries and rows.                                                       *)
(***************************************************************************)
Sp == << " " >>
Colon == << ":" >>
Dash == << "-" >>
TermA == << "a" >>
TermB == << "b" >>
TermC == << "c" >>
Terms == {TermA, TermB, TermC}

\* query expressions as trees
Term(t) == [op |-> "term", term |-> t, kids |-> << >>]
Not(e) == [op |-> "not", term |-> << >>, kids |-> << e >>]
And(l, r) == [op |-> "and", term |-> << >>, kids |-> << l, r >>]
Or(l, r) == [op |-> "or", term |-> << >>, kids |-> << l, r >>]

Level0 == {Term(t) : t \in Terms}

Level1 ==
  {Not(e) : e \in Level0}
    \cup {And(l, r) : l \in Level0, r \in Level0}
    \cup {Or(l, r) : l \in Level0, r \in Level0}

Level2 ==
  {Not(e) : e \in Level1}
    \cup {And(l, r) : l \in Level1, r \in Level0} \cup {And(l, r) : l \in Level0, r \in Level1}
    \cup {Or(l, r) : l \in Level1, r \in Level0} \cup {Or(l, r) : l \in Level0, r \in Level1}

\* a OR b AND NOT c
PrecedenceExample == Or(Term(TermA), And(Term(TermB), Not(Term(TermC))))

Exprs == Level0 \cup Level1 \cup Level2 \cup {PrecedenceExample}

RECURSIVE Render(_)
\* the query text of an expression, with parentheses only where the precedence
\* NOT > AND > OR and the left associativity of AND and OR need them
Render(e) ==
  LET Paren(x) == LPAREN \o Render(x) \o RPAREN
      l == e.kids[1]
      r == e.kids[2]
  IN CASE e.op = "term" -> e.term
       [] e.op = "not" ->
            NOT_ \o Sp \o (IF l.op \in {"and", "or"} THEN Paren(l) ELSE Render(l))
       [] e.op = "and" ->
            (IF l.op = "or" THEN Paren(l) ELSE Render(l)) \o Sp \o AND_ \o Sp
              \o (IF r.op \in {"and", "or"} THEN Paren(r) ELSE Render(r))
       [] e.op = "or" ->
            Render(l) \o Sp \o OR_ \o Sp \o (IF r.op = "or" THEN Paren(r) ELSE Render(r))

RenderTable == [e \in Exprs |-> Render(e)]

RECURSIVE Eval(_, _)
\* the value of an expression on a row under the standard boolean semantics; a term
\* holds when its own predicate holds
Eval(e, r) ==
  CASE e.op = "term" -> EvalPred(term_predicate(e.term), r)
    [] e.op = "not" -> ~ Eval(e.kids[1], r)
    [] e.op = "and" -> Eval(e.kids[1], r) /\ Eval(e.kids[2], r)
    [] e.op = "or" -> Eval(e.kids[1], r) \/ Eval(e.kids[2], r)

MaxToks == 3

TokenAlphabet == {AND_, OR_, NOT_, TermA, LPAREN, RPAREN}

\* every sequence of one to MaxToks tokens, separated by spaces
TokenQueries ==
  {JoinWith(Sp, ts) : ts \in UNION {[1..n -> TokenAlphabet] : n \in 1..MaxToks}}

FieldF == << "f" >>
FieldG == << "g" >>
FieldH == << "h" >>
FieldNote == << "n", "o", "t", "e" >>
FieldOrigBytes == << "o", "r", "i", "g", "_", "b", "y", "t", "e", "s" >>
FieldNames == {FieldF, FieldNote, FieldOrigBytes}

ValX == << "x" >>
ValY == << "y" >>
ValStar == << "*" >>
ValAStar == << "a", "*" >>
ValAB == << "a", " ", "b" >>
PlainValues == {TermA, ValX}
ValuePatterns == PlainValues \cup {ValStar, ValAStar}

FieldQuery(f, v) == f \o Colon \o v
FieldQueries == {FieldQuery(f, v) : f \in FieldNames, v \in ValuePatterns}

\* f:"a b"
QuotedField == FieldF \o Colon \o << "\"" >> \o ValAB \o << "\"" >>
QuotedFieldValue == ValAB
\* "x AND y"
QuotedText == << "\"", "x" >> \o Sp \o AND_ \o Sp \o << "y", "\"" >>
QuotedTextValue == ValX \o Sp \o AND_ \o Sp \o ValY
\* lower-case operators, and no query at all
OtherQueries == {<< "a", " ", "a", "n", "d", " ", "n", "o", "t", " ", "b" >>, << >>, Sp}

\* the text with the characters c put in after its first k characters
InsertAt(t, k, c) == SubSeq(t, 1, k) \o c \o SubSeq(t, k + 1, Len(t))

\* the text without its k-th character
RemoveAt(t, k) == SubSeq(t, 1, k - 1) \o SubSeq(t, k + 1, Len(t))

\* where a token may be put in: at the start, at the end, or right before a space
Boundaries(t) == {k \in 0..Len(t) : k = 0 \/ k = Len(t) \/ t[k + 1] = " "}

\* the expressions that get a closing parenthesis put in
ParenExprs ==
  Level0 \cup Level1
    \cup {PrecedenceExample,
          Or(Term(TermA), And(Term(TermB), Term(TermC))),
          And(Or(Term(TermA), Term(TermB)), Term(TermC)),
          And(Term(TermA), Or(Term(TermB), Term(TermC))),
          Not(And(Term(TermA), Term(TermB)))}

\* a OR b) AND c and its like
ParenQueries ==
  UNION {{InsertAt(RenderTable[e], k, RPAREN) : k \in Boundaries(RenderTable[e])} :
           e \in ParenExprs}

Queries ==
  {RenderTable[e] : e \in Exprs} \cup TokenQueries \cup FieldQueries
    \cup {QuotedField, QuotedText} \cup OtherQueries \cup ParenQueries

\* a row whose columns f, g, h hold a, b, c for the terms in S and - for the others
TermRow(S) ==
  << << FieldF, IF TermA \in S THEN TermA ELSE Dash >>,
     << FieldG, IF TermB \in S THEN TermB ELSE Dash >>,
     << FieldH, IF TermC \in S THEN TermC ELSE Dash >> >>

Rows ==
  {TermRow(S) : S \in SUBSET Terms}
    \cup {<< << FieldNote, ValX >> >>, << << FieldNote, ValY >> >>,
          << << FieldOrigBytes, ValX >> >>, << << FieldOrigBytes, ValY >> >>,
          << << FieldF, ValAB >> >>, << << FieldF, << "A" >> >> >>,
          << << FieldG, TermA >> >>}

(***************************************************************************)
(* get_log serving one row of the merged log under a query.                *)
(***************************************************************************)
InitQuery ==
  /\ ShardIdle
  /\ MergeIdle
  /\ q_pc = "compile"
  /\ q \in Queries
  /\ row \in Rows
  /\ toks = << >>
  /\ rpn = << >>
  /\ rpn_i = 0
  /\ preds = << >>
  /\ subst = FALSE
  /\ pred = << >>
  /\ result = FALSE

\* _compile_query, lines 150-156, when there is something to compile
QTokenize ==
  /\ q_pc = "compile"
  /\ tokenize(Strip(q)) # << >>
  /\ toks' = tokenize(Strip(q))
  /\ q_pc' = "tokens"
  /\ UNCHANGED << q, row, rpn, rpn_i, preds, subst, pred, result >>
  /\ UNCHANGED << shardVars, mergeVars >>

\* _compile_query returns None for an empty query or one without tokens
QNoQuery ==
  /\ q_pc = "compile"
  /\ tokenize(Strip(q)) = << >>
  /\ pred' = NoPred
  /\ q_pc' = "compiled"
  /\ UNCHANGED << q, row, toks, rpn, rpn_i, preds, subst, result >>
  /\ UNCHANGED << shardVars, mergeVars >>

\* rpn = _to_rpn(toks); preds = []
QToRpn ==
  /\ q_pc = "tokens"
  /\ rpn' = to_rpn(toks)
  /\ rpn_i' = 0
  /\ preds' = << >>
  /\ q_pc' = "loop"
  /\ UNCHANGED << q, row, toks, subst, pred, result >>
  /\ UNCHANGED << shardVars, mergeVars >>

\* one turn of `for tok in rpn`
QCompileStep ==
  /\ q_pc = "loop"
  /\ rpn_i < Len(rpn)
  /\ LET st == CompileStep([preds |-> preds, subst |-> subst], rpn[rpn_i + 1])
     IN /\ preds' = st.preds
        /\ subst' = st.subst
  /\ rpn_i' = rpn_i + 1
  /\ UNCHANGED << q_pc, q, row, toks, rpn, pred, result >>
  /\ UNCHANGED << shardVars, mergeVars >>

\* the end of the loop: None without operands, else preds[-1]
QCompiled ==
  /\ q_pc = "loop"
  /\ rpn_i = Len(rpn)
  /\ pred' = IF Len(preds) = 0 THEN NoPred ELSE Top(preds)
  /\ q_pc' = "compiled"
  /\ UNCHANGED << q, row, toks, rpn, rpn_i, preds, subst, result >>
  /\ UNCHANGED << shardVars, mergeVars >>

\* get_log keeps the row if pred is None or pred(row)
QFilter ==
  /\ q_pc = "compiled"
  /\ result' = (pred = NoPred \/ EvalPred(pred, row))
  /\ q_pc' = "done"
  /\ UNCHANGED << q, row, toks, rpn, rpn_i, preds, subst, pred >>
  /\ UNCHANGED << shardVars, mergeVars >>

NextQuery ==
  \/ QTokenize
  \/ QNoQuery
  \/ QToRpn
  \/ QCompileStep
  \/ QCompiled
  \/ QFilter

SpecQuery == InitQuery /\ [][NextQuery]_vars

(***************************************************************************)
(* The capture format, for the statements below: the complete records of   *)
(* a record area (everything after the global header).                     *)
(***************************************************************************)
RECURSIVE Records(_)
Records(b) ==
  IF Len(b) < PCAP_PKT_HDR_LEN THEN << >>
  ELSE LET n == PCAP_PKT_HDR_LEN + FromBytesLittle(Slice(b, 8, 12))
       IN IF n > Len(b) THEN << >>
          ELSE << Slice(b, 0, n) >> \o Records(SliceFrom(b, n))

InRecords == Records(SliceFrom(data, PCAP_GLOBAL_HDR_LEN))

OutRecords(i) == Records(SliceFrom(outs[i].bytes, PCAP_GLOBAL_HDR_LEN))

PktKey(rec) == flow_key(SliceFrom(rec, PCAP_PKT_HDR_LEN))

RECURSIVE KeysOf(_)
\* the flow keys of the records recs, in order
KeysOf(recs) == IF Len(recs) = 0 THEN << >> ELSE << PktKey(recs[1]) >> \o KeysOf(Tail(recs))

\* how many of the keys ks are k
CountKey(ks, k) == Cardinality({ j \in 1..Len(ks) : ks[j] = k })

RECURSIVE RecordsBefore(_, _)
\* the complete input records that start before offset o of the record area
RecordsBefore(recs, o) ==
  IF Len(recs) = 0 \/ o <= 0 THEN << >>
  ELSE << recs[1] >> \o RecordsBefore(Tail(recs), o - Len(recs[1]))

Consumed == RecordsBefore(InRecords, off - PCAP_GLOBAL_HDR_LEN)

(***************************************************************************)
(* C1: at every point of a run with N >= 1 shards, for every flow key seen *)
(* so far, all packets with that key were written to one shard, that       *)
(* shard is the Flow Record's shard id, the id lies in 1..N and never      *)
(* changes once the record exists, and the record's packet count is the    *)
(* number of packets with that key written so far (which is the number of  *)
(* input packets with that key read so far).                               *)
(***************************************************************************)
C1_Inv ==
  LET consumed == KeysOf(Consumed)
  IN /\ \A r, s \in 1..Len(flow_map) : flow_map[r].key = flow_map[s].key => r = s
     /\ flow_map # << >> => Len(outs) = workers
     /\ \A r \in 1..Len(flow_map) :
          /\ flow_map[r].worker \in 1..workers
          /\ CountKey(consumed, flow_map[r].key) = flow_map[r].pkt_count
     /\ \A i \in 1..Len(outs) :
          LET written == KeysOf(OutRecords(i))
          IN /\ \A j \in 1..Len(written) : KeyIndex(flow_map, written[j]) # {}
             /\ \A r \in 1..Len(flow_map) :
                  CountKey(written, flow_map[r].key) =
                    IF flow_map[r].worker = i THEN flow_map[r].pkt_count ELSE 0

C1_Stable ==
  \A r \in 1..Len(flow_map) :
    /\ r <= Len(flow_map')
    /\ flow_map'[r].key = flow_map[r].key
    /\ flow_map'[r].worker = flow_map[r].worker

C1_FlowAffinity == [](C1_Inv) /\ [][C1_Stable]_vars

\* two shards, a flow with two packets written, another flow on the other shard
C1_Witness ==
  /\ workers = 2
  /\ \E r, s \in 1..Len(flow_map) :
       /\ flow_map[r].pkt_count >= 2
       /\ flow_map[s].worker # flow_map[r].worker
       /\ CountKey(KeysOf(OutRecords(flow_map[r].worker)), flow_map[r].key) = 2

(***************************************************************************)
(* C2: after the pass completes on a capture with a full global header,    *)
(* every complete packet record of the input is in exactly one shard       *)
(* output, byte for byte and in input order, and each shard output is the  *)
(* input's global header followed by its records and nothing else.         *)
(***************************************************************************)
RECURSIVE ShardImage(_, _, _)
\* the records of recs that assignment a gives to shard i, concatenated in order
ShardImage(recs, a, i) ==
  IF Len(recs) = 0 THEN << >>
  ELSE (IF a[1] = i THEN recs[1] ELSE << >>) \o ShardImage(Tail(recs), Tail(a), i)

C2_Partition ==
  pc = "returned" =>
    /\ Len(outs) = workers
    /\ \E a \in [1..Len(InRecords) -> 1..workers] :
         \A i \in 1..workers :
           outs[i].bytes = Slice(data, 0, PCAP_GLOBAL_HDR_LEN) \o ShardImage(InRecords, a, i)

\* completed, both shards hold a record, and the input ends in a truncated record
C2_Witness ==
  /\ pc = "returned"
  /\ workers = 2
  /\ Len(OutRecords(1)) >= 1
  /\ Len(OutRecords(2)) >= 1
  /\ Len(InRecords) >= 2
  /\ Len(data) > PCAP_GLOBAL_HDR_LEN + Len(Concat(InRecords))

(***************************************************************************)
(* C9: the shard map does not depend on packet arrival order: a capture    *)
(* holding the same packet records in any other order, sharded with the    *)
(* same N, yields the same sequence of shard-map rows.                     *)
(***************************************************************************)
RECURSIVE FlowMapOf(_)
\* the accumulator after a pass over the packets pkts
FlowMapOf(pkts) ==
  IF Len(pkts) = 0 THEN << >>
  ELSE LET kr == tuple_for_packet(pkts[Len(pkts)])
       IN Account(FlowMapOf(SubSeq(pkts, 1, Len(pkts) - 1)), kr.key, kr.rep,
                  WorkerIdx(hashOf[kr.key]) + 1)

InPackets == [j \in 1..Len(InRecords) |-> SliceFrom(InRecords[j], PCAP_PKT_HDR_LEN)]

C9_OrderIndependent ==
  pc = "returned" =>
    \A p \in Permutations(1..Len(InPackets)) :
      MapLines(FlowMapOf([j \in 1..Len(InPackets) |-> InPackets[p[j]]])) = map_rows

(***************************************************************************)
(* C10: on every exit path of the pass every shard output handle that was  *)
(* opened is closed when the call returns or raises, and a capture shorter *)
(* than the global header is the only input content that makes it fail.    *)
(***************************************************************************)
C10_HandlesReleased ==
  /\ pc \in {"returned", "raised"} => \A i \in 1..Len(outs) : ~ outs[i].open
  /\ (pc = "raised" /\ exc = "format") => Len(data) < PCAP_GLOBAL_HDR_LEN

\* the rows written are those of a pass over the input in its own order
MapMatchesFold == pc = "returned" => map_rows = MapLines(FlowMapOf(InPackets))

(***************************************************************************)
(* C3: the merged rows of a log name are the rows of the contributing      *)
(* workers (workers in name order, each worker's rows in file order); when *)
(* the first worker's fields contain ts they are non-decreasing in the     *)
(* parsed ts value (no row is followed by one with a smaller value) and    *)
(* rows with equal values keep their concatenation order; without a ts     *)
(* field the concatenation is written unchanged.                           *)
(***************************************************************************)
Concatenated == Concat([k \in 1..Len(paths) |-> worker_logs[paths[k]].rows])

\* where row r stands in the concatenation (rows are distinct: the uid names them)
ConcatPos(r) == CHOOSE k \in 1..Len(Concatenated) : Concatenated[k] = r

C3_MergeOrder ==
  (m_pc = "done" /\ paths # << >>) =>
    LET i == ts_index(worker_logs[paths[1]].fields)
    IN IF i = -1
       THEN merged = Concatenated
       ELSE /\ Len(merged) = Len(Concatenated)
            /\ \A k \in 1..Len(Concatenated) : \E j \in 1..Len(merged) : merged[j] = Concatenated[k]
            /\ \A j, k \in 1..Len(merged) :
                 j < k =>
                   /\ ~ FloatLess(ts_val(merged[k], i), ts_val(merged[j], i))
                   /\ ts_val(merged[j], i) = ts_val(merged[k], i)
                        => ConcatPos(merged[j]) < ConcatPos(merged[k])

(***************************************************************************)
(* The query engine's statements.                                          *)
(***************************************************************************)
\* the row has an entry for the field
HasField(r, f) == \E k \in 1..Len(r) : r[k][1] = f

\* the value has no wildcard
IsPlain(v) == \A k \in 1..Len(v) : v[k] \notin {"*", "?"}

\* C4: for a field name f and a wildcard-free value v, the query f:v keeps every row
\* whose value for f is v and drops every row whose value for f is another one
\* (values compared without regard to case, as _match_value compares them).
C4_FieldRoundTrip ==
  q_pc = "done" =>
    \A f \in FieldNames : \A v \in PlainValues :
      (q = FieldQuery(f, v) /\ HasField(row, f)) =>
        (result <=> UpperStr(RowGet(row, f)) = UpperStr(v))

\* C5: a well-formed query of terms, parentheses, AND, OR and prefix NOT keeps a row
\* exactly when the expression it writes holds on the row, NOT binding tighter than
\* AND, AND tighter than OR, AND and OR associating to the left.
C5_BooleanSemantics ==
  q_pc = "done" =>
    \A e \in Exprs : q = RenderTable[e] => (result <=> Eval(e, row))

\* C6: a field:value query with a non-empty value pattern drops every row that has
\* no entry for the field.
C6_MissingFieldNeverMatches ==
  q_pc = "done" =>
    \A f \in FieldNames : \A v \in ValuePatterns :
      (q = FieldQuery(f, v) /\ v # << >> /\ ~ HasField(row, f)) => ~ result

\* every token of the query is AND, OR or NOT
OnlyOperators == toks # << >> /\ \A k \in 1..Len(toks) : norm(toks[k]) \in Operators

\* C7: when an operator finds too few operands the always-true predicate stands in
\* for it and the malformed fragment rejects no row: a query made of operators alone,
\* malformed throughout, keeps every row.
C7_MalformedIsPermissive ==
  (q_pc = "done" /\ subst /\ OnlyOperators) => result

\* C8: a double-quoted value is one token taken literally: f:"a b" is the single
\* field predicate that keeps the rows whose f is a b, and "x AND y" is a single
\* free-text term.
C8_QuotedIsOneTerm ==
  q_pc = "done" =>
    /\ q = QuotedField =>
         /\ Len(toks) = 1
         /\ pred = FieldPred(FieldF, QuotedFieldValue)
         /\ (result <=> RowGet(row, FieldF) = QuotedFieldValue)
    /\ q = QuotedText =>
         /\ Len(toks) = 1
         /\ pred = AnyPred(QuotedTextValue)

RECURSIVE OpenBefore(_, _)
\* how many ( are still open after the first k characters of the text
OpenBefore(t, k) ==
  IF k = 0 THEN 0
  ELSE LET d == OpenBefore(t, k - 1)
       IN IF t[k] = "(" THEN d + 1
          ELSE IF t[k] = ")" /\ d > 0 THEN d - 1
          ELSE d

\* the k-th character of the text is a ) that closes nothing
UnmatchedClose(t, k) == t[k] = ")" /\ OpenBefore(t, k - 1) = 0

\* a OR b) AND c
ExampleClose ==
  InsertAt(RenderTable[Or(Term(TermA), And(Term(TermB), Term(TermC)))], 6, RPAREN)

\* C11: a closing parenthesis that closes nothing is ignored: the query keeps a row
\* exactly when the query without that parenthesis keeps it.
C11_UnmatchedCloseIgnored ==
  q_pc = "done" =>
    \A k \in 1..Len(q) :
      UnmatchedClose(q, k) => (result <=> Keeps(RemoveAt(q, k), row))

====
